---- MODULE Spec2Model ----
(***************************************************************************)
(* Model of handlerx/utils.go: writeJSON, writeJSONError, RegisterPrinter   *)
(* and dbgPrintf.                                                           *)
(*                                                                          *)
(* Text (Go strings and byte slices) is a sequence of tokens.  A token is   *)
(* one decimal digit character, or a chunk of text holding no digit that    *)
(* the code never looks inside.  A Go int is a 64 bit non-negative value    *)
(* kept as five limbs in base 10000, most significant first.                *)
(***************************************************************************)
EXTENDS Integers, Sequences, FiniteSets, TLC

\* ---------------------------------------------------------------- bounds
MaxErrs == 2
MaxKeys == 2
NumCalls == 2
NumPrinters == 1
MaxRegs == 2
MaxAccepted == 1

\* ------------------------------------------------------- program constants
StatusUnprocessableEntity == 422
StatusInternalServerError == 500
LimbBase == 10000

ValidationFailed == <<"GRAPHQL_VALIDATION_FAILED">>
ParseFailed == <<"GRAPHQL_PARSE_FAILED">>
FallbackMessage == <<"unexpected error: unmarshal or write response error">>

\* ------------------------------------------------------------- Go int
DigitTok == <<"0", "1", "2", "3", "4", "5", "6", "7", "8", "9">>
Digits == {DigitTok[i] : i \in 1..10}
Digit(i) == DigitTok[i + 1]
DigitVal(t) == CHOOSE i \in 0..9 : DigitTok[i + 1] = t

Zero == <<0, 0, 0, 0, 0>>
\* 2^63 - 1 = 922 3372 0368 5477 5807
MaxInt == <<922, 3372, 368, 5477, 5807>>
\* the Go int of a small natural number (< 10^8)
GoInt(n) == <<0, 0, 0, n \div LimbBase, n % LimbBase>>

RECURSIVE LimbsLess(_, _)
LimbsLess(a, b) ==
  IF a = <<>> THEN FALSE
  ELSE IF Head(a) # Head(b) THEN Head(a) < Head(b)
  ELSE LimbsLess(Tail(a), Tail(b))

\* n * 10 + d on limbs; ovf when the result does not fit the int
Mul10Add(a, d) ==
  LET t5 == a[5] * 10 + d
      t4 == a[4] * 10 + (t5 \div LimbBase)
      t3 == a[3] * 10 + (t4 \div LimbBase)
      t2 == a[2] * 10 + (t3 \div LimbBase)
      t1 == a[1] * 10 + (t2 \div LimbBase)
      r == <<t1, t2 % LimbBase, t3 % LimbBase, t4 % LimbBase, t5 % LimbBase>>
  IN [v |-> r, ovf |-> LimbsLess(MaxInt, r)]

RECURSIVE ParseDigits(_, _)
ParseDigits(s, acc) ==
  IF s = <<>> THEN [v |-> acc, err |-> FALSE]
  ELSE LET nx == Mul10Add(acc, DigitVal(Head(s)))
       IN IF nx.ovf THEN [v |-> MaxInt, err |-> TRUE]
          ELSE ParseDigits(Tail(s), nx.v)

\* variant: a range error gives zero instead of the largest int
AtoiZeroOnRange(s) ==
  LET p == ParseDigits(s, Zero) IN
  IF s = <<>> \/ \E i \in 1..Len(s) : s[i] \notin Digits
  THEN [v |-> Zero, err |-> TRUE]
  ELSE IF p.err THEN [v |-> Zero, err |-> TRUE] ELSE p

\* strconv.Atoi on a non-negative decimal: the value, or the largest int and a
\* range error when the value does not fit; zero and a syntax error otherwise
Atoi(s) ==
  IF s = <<>> \/ \E i \in 1..Len(s) : s[i] \notin Digits
  THEN [v |-> Zero, err |-> TRUE]
  ELSE ParseDigits(s, Zero)

RECURSIVE StripZeros(_)
StripZeros(s) ==
  IF Len(s) > 1 /\ Head(s) = "0" THEN StripZeros(Tail(s)) ELSE s

Pad4(x) ==
  <<Digit(x \div 1000), Digit((x \div 100) % 10), Digit((x \div 10) % 10), Digit(x % 10)>>

\* the decimal rendering of an int (strconv.Itoa, and encoding/json for an int)
Itoa(n) ==
  StripZeros(Pad4(n[1]) \o Pad4(n[2]) \o Pad4(n[3]) \o Pad4(n[4]) \o Pad4(n[5]))

\* variant: ^\d*$, which the empty string matches
NumRegexpAcceptsEmpty(s) == \A i \in 1..Len(s) : s[i] \in Digits

\* numRegexp = ^\d+$ : one or more characters, every one a decimal digit
numRegexp(s) == Len(s) > 0 /\ \A i \in 1..Len(s) : s[i] \in Digits

\* ------------------------------------------------- json.RawMessage values
\* A raw message is its bytes (raw) together with what encoding/json makes of
\* them: kind is nil (a nil slice), empty (no bytes, not nil), invalid (not
\* JSON), null, number, string, array, object (members: its key/value pairs
\* in text order) or value (bytes cut from a valid document).
NilData == [kind |-> "nil", raw |-> <<>>, members |-> <<>>]
EmptyData == [kind |-> "empty", raw |-> <<>>, members |-> <<>>]
InvalidData == [kind |-> "invalid", raw |-> <<"{", "\"a\"">>, members |-> <<>>]
NullData == [kind |-> "null", raw |-> <<"null">>, members |-> <<>>]
NumberData == [kind |-> "number", raw |-> <<"5">>, members |-> <<>>]
StringData == [kind |-> "string", raw |-> <<"\"s\"">>, members |-> <<>>]
ArrayData == [kind |-> "array", raw |-> <<"[", " ", "2", "]">>, members |-> <<>>]

RECURSIVE RenderMembers(_)
RenderMembers(ms) ==
  IF ms = <<>> THEN <<>>
  ELSE <<ms[1].key, ":", " ">> \o ms[1].val
       \o (IF Len(ms) > 1 THEN <<",">> ELSE <<>>) \o RenderMembers(Tail(ms))

ObjectData(ms) ==
  [kind |-> "object", raw |-> <<"{">> \o RenderMembers(ms) \o <<"}">>, members |-> ms]

RawValue(v) == [kind |-> "value", raw |-> v, members |-> <<>>]

\* json.Unmarshal(data, &m) with m a map[string]json.RawMessage: null leaves
\* the map nil, an object fills it (a repeated key keeps its last value),
\* anything else is an error
jsonUnmarshal(d) ==
  LET ms == d.members
      keys == {ms[i].key : i \in 1..Len(ms)}
      last(k) == CHOOSE i \in 1..Len(ms) :
                   ms[i].key = k /\ \A j \in 1..Len(ms) : ms[j].key = k => j <= i
  IN CASE d.kind = "object" -> [err |-> FALSE, m |-> [k \in keys |-> ms[last(k)].val]]
       [] d.kind = "null" -> [err |-> FALSE, m |-> [k \in {} |-> <<>>]]
       [] OTHER -> [err |-> TRUE, m |-> [k \in {} |-> <<>>]]

\* json.Compact: the bytes without insignificant white space (the documents
\* tried hold no character that the encoder would escape)
RECURSIVE Compact(_)
Compact(b) ==
  IF b = <<>> THEN <<>>
  ELSE IF Head(b) = " " THEN Compact(Tail(b)) ELSE <<Head(b)>> \o Compact(Tail(b))

\* RawMessage.MarshalJSON followed by the encoder's compaction
MarshalRaw(d) ==
  CASE d.kind = "nil" -> [err |-> FALSE, b |-> <<"null">>]
    [] d.kind \in {"empty", "invalid"} -> [err |-> TRUE, b |-> <<>>]
    [] OTHER -> [err |-> FALSE, b |-> Compact(d.raw)]

\* a JSON string literal
Quote(s) == <<"\"">> \o s \o <<"\"">>

\* ------------------------------------------------------------ gqlerror
NoCode == [t |-> "none", s |-> <<>>, n |-> Zero]
StringCode(s) == [t |-> "string", s |-> s, n |-> Zero]
IntCode(n) == [t |-> "int", s |-> <<>>, n |-> n]

\* ast.Path.String(): names joined by ".", indexes as "[i]"
RECURSIVE PathFrom(_, _)
PathFrom(path, i) ==
  IF i > Len(path) THEN <<>>
  ELSE (IF path[i].k = "index" THEN <<"[", path[i].v, "]">>
        ELSE (IF i # 1 THEN <<".">> ELSE <<>>) \o <<path[i].v>>)
       \o PathFrom(path, i + 1)

PathString(path) == PathFrom(path, 1)

\* lines 97-99: the working code after one error; a value that is not a
\* string fails the type assertion and leaves the empty string
CodeOfExtension(ext, code) ==
  IF ext.t # "none"
  THEN (IF ext.t = "string" THEN ext.s ELSE <<>>)
  ELSE code

\* variant: the path joined to the message with no space
ErrorTextNoSpace(e) ==
  IF Len(e.Path) > 0 THEN e.Message \o PathString(e.Path) ELSE e.Message

\* lines 100-104: the text one error contributes
ErrorText(e) ==
  IF Len(e.Path) > 0 THEN e.Message \o <<" ">> \o PathString(e.Path) ELSE e.Message

\* lines 96-105: the loop over r.Errors
RECURSIVE ErrorLoop(_, _, _)
ErrorLoop(errs, code, msgs) ==
  IF errs = <<>> THEN [code |-> code, msgs |-> msgs]
  ELSE LET e == Head(errs)
       IN ErrorLoop(Tail(errs), CodeOfExtension(e.Extensions, code),
                    Append(msgs, ErrorText(e)))

\* strings.Join
RECURSIVE Join(_, _)
Join(elems, sep) ==
  IF elems = <<>> THEN <<>>
  ELSE IF Len(elems) = 1 THEN elems[1]
  ELSE elems[1] \o sep \o Join(Tail(elems), sep)

\* variant: a decimal too large for the int resolves to zero
ResolveCodeZeroOnRange(code) ==
  IF numRegexp(code) THEN AtoiZeroOnRange(code).v
  ELSE IF code = ValidationFailed \/ code = ParseFailed
       THEN GoInt(StatusUnprocessableEntity)
       ELSE GoInt(StatusInternalServerError)

\* lines 107-116: the working code resolved to response.Code
ResolveCode(code) ==
  IF numRegexp(code) THEN Atoi(code).v
  ELSE IF code = ValidationFailed \/ code = ParseFailed
       THEN GoInt(StatusUnprocessableEntity)
       ELSE GoInt(StatusInternalServerError)

\* json.Marshal of a RESTResponse: code, message (omitted when empty), data
MarshalREST(resp) ==
  LET d == MarshalRaw(resp.Data)
  IN [err |-> d.err,
      b |-> <<"{", "\"code\":">> \o Itoa(resp.Code)
            \o (IF resp.Message # <<>>
                THEN <<",", "\"message\":">> \o Quote(resp.Message) ELSE <<>>)
            \o <<",", "\"data\":">> \o d.b \o <<"}">>]

\* json.Marshal of an ast.Path: an array of names (strings) and indexes
RECURSIVE PathJSON(_)
PathJSON(path) ==
  IF path = <<>> THEN <<>>
  ELSE (IF path[1].k = "index" THEN <<path[1].v>> ELSE Quote(<<path[1].v>>))
       \o (IF Len(path) > 1 THEN <<",">> ELSE <<>>) \o PathJSON(Tail(path))

\* json.Marshal of one gqlerror.Error
MarshalError(e) ==
  <<"{", "\"message\":">> \o Quote(e.Message)
  \o (IF Len(e.Path) > 0 THEN <<",", "\"path\":", "[">> \o PathJSON(e.Path) \o <<"]">> ELSE <<>>)
  \o (IF e.Extensions.t = "none" THEN <<>>
      ELSE <<",", "\"extensions\":", "{", "\"code\":">>
           \o (IF e.Extensions.t = "string" THEN Quote(e.Extensions.s)
               ELSE Itoa(e.Extensions.n)) \o <<"}">>)
  \o <<"}">>

RECURSIVE MarshalErrors(_)
MarshalErrors(errs) ==
  IF errs = <<>> THEN <<>>
  ELSE MarshalError(Head(errs)) \o (IF Len(errs) > 1 THEN <<",">> ELSE <<>>)
       \o MarshalErrors(Tail(errs))

\* json.Marshal of a graphql.Response: errors (omitted when empty), then data
MarshalGraphQL(r) ==
  LET d == MarshalRaw(r.Data)
  IN [err |-> d.err,
      b |-> <<"{">>
            \o (IF Len(r.Errors) > 0
                THEN <<"\"errors\":", "[">> \o MarshalErrors(r.Errors) \o <<"]", ",">>
                ELSE <<>>)
            \o <<"\"data\":">> \o d.b \o <<"}">>]

\* lines 64-68: the envelope written after a recovered panic
FallbackResponse ==
  [Code |-> GoInt(StatusInternalServerError), Message |-> FallbackMessage, Data |-> NilData]

\* lines 133-136: the response writeJSONError hands to writeJSON
ErrorResponse(code, msg) ==
  [Errors |-> <<[Message |-> msg, Path |-> <<>>, Extensions |-> IntCode(code)]>>,
   Data |-> NilData]

\* variant: the data is left as the whole document
PickDataWhole(d, m, k) == d

\* lines 88-91: the envelope's data, the value found under the key the range
\* over the map yields first
PickData(d, m, k) == RawValue(m[k])

\* variant: any valid JSON value is accepted and leaves the map empty
jsonUnmarshalAnyValue(d) ==
  IF d.kind = "invalid" THEN jsonUnmarshal(d)
  ELSE [err |-> FALSE, m |-> jsonUnmarshal(d).m]

\* line 83: json.Unmarshal(r.Data, &m)
UnmarshalData(d) == jsonUnmarshal(d)

\* ---------------------------------------------------------------- state
VARIABLES
  req,        \* per call: the function called and its arguments (fn none: no call)
  pc,         \* per call: where writeJSON stands
  r,          \* per call: the *graphql.Response writeJSON was given
  response,   \* per call: the RESTResponse being built (line 76)
  code,       \* per call: the working code string (line 95)
  b,          \* per call: the marshalled bytes (lines 46, 121)
  sink,       \* per call: the bytes its io.Writer has accepted
  writes,     \* per call: the w.Write calls made, in order
  printed,    \* per call: the Printf calls that reached the printer
  recovered,  \* per call: the panic value recover() returned (line 59)
  panicking,  \* per call: the panic that left writeJSON
  printer,    \* the two words of the interface variable _printer (line 151)
  reg         \* the goroutine calling RegisterPrinter

vars == <<req, pc, r, response, code, b, sink, writes, printed,
          recovered, panicking, printer, reg>>

Calls == 1..NumCalls
\* 0 is the nil word
Printers == 1..NumPrinters

NoResponse == [Errors |-> <<>>, Data |-> NilData]
ZeroResponse == [Code |-> Zero, Message |-> <<>>, Data |-> NilData]
NoRequest ==
  [fn |-> "none", r |-> NoResponse, isRESTful |-> FALSE, code |-> Zero, msg |-> <<>>]
DirectCall(resp, rest) ==
  [fn |-> "writeJSON", r |-> resp, isRESTful |-> rest, code |-> Zero, msg |-> <<>>]
ErrorCall(c, rest, m) ==
  [fn |-> "writeJSONError", r |-> NoResponse, isRESTful |-> rest, code |-> c, msg |-> m]

\* ------------------------------------------------------------- actions
\* lines 43-45, 57-58: writeJSON is entered (the REST branch defers its recovery)
writeJSON(c) ==
  /\ pc[c] = "idle" /\ req[c].fn = "writeJSON"
  /\ r' = [r EXCEPT ![c] = req[c].r]
  /\ pc' = [pc EXCEPT ![c] = IF req[c].isRESTful THEN "rest_data" ELSE "gql_marshal"]
  /\ UNCHANGED <<req, response, code, b, sink, writes, printed,
                 recovered, panicking, printer, reg>>

\* lines 132-137
writeJSONError(c) ==
  /\ pc[c] = "idle" /\ req[c].fn = "writeJSONError"
  /\ r' = [r EXCEPT ![c] = ErrorResponse(req[c].code, req[c].msg)]
  /\ pc' = [pc EXCEPT ![c] = IF req[c].isRESTful THEN "rest_data" ELSE "gql_marshal"]
  /\ UNCHANGED <<req, response, code, b, sink, writes, printed,
                 recovered, panicking, printer, reg>>

\* lines 46-49
GraphQLMarshal(c) ==
  /\ pc[c] = "gql_marshal"
  /\ LET m == MarshalGraphQL(r[c]) IN
     IF m.err
     THEN /\ pc' = [pc EXCEPT ![c] = "panicked"]
          /\ panicking' = [panicking EXCEPT ![c] = "marshal"]
          /\ b' = b
     ELSE /\ pc' = [pc EXCEPT ![c] = "gql_write"]
          /\ b' = [b EXCEPT ![c] = m.b]
          /\ panicking' = panicking
  /\ UNCHANGED <<req, r, response, code, sink, writes, printed,
                 recovered, printer, reg>>

\* one w.Write(bytes): all bytes accepted, or an error after a proper prefix
Write(c, bytes, what) ==
  \/ /\ sink' = [sink EXCEPT ![c] = @ \o bytes]
     /\ writes' = [writes EXCEPT ![c] = Append(@, [what |-> what, ok |-> TRUE])]
  \/ \E n \in 0..MaxAccepted :
       /\ n < Len(bytes)
       /\ sink' = [sink EXCEPT ![c] = @ \o SubSeq(bytes, 1, n)]
       /\ writes' = [writes EXCEPT ![c] = Append(@, [what |-> what, ok |-> FALSE])]

WriteOk(c) == writes'[c][Len(writes'[c])].ok

\* lines 50-54
GraphQLWrite(c) ==
  /\ pc[c] = "gql_write"
  /\ Write(c, b[c], "graphql")
  /\ pc' = [pc EXCEPT ![c] = IF WriteOk(c) THEN "returned" ELSE "panicked"]
  /\ panicking' = [panicking EXCEPT ![c] = IF WriteOk(c) THEN @ ELSE "write"]
  /\ UNCHANGED <<req, r, response, code, b, printed, recovered, printer, reg>>

\* lines 76-92
RESTData(c) ==
  /\ pc[c] = "rest_data"
  /\ LET d == r[c].Data
         u == UnmarshalData(d)
     IN IF Len(d.raw) > 0 /\ u.err
        THEN /\ response' = [response EXCEPT ![c] = [ZeroResponse EXCEPT !.Data = d]]
             /\ recovered' = [recovered EXCEPT ![c] = "unmarshal"]
             /\ pc' = [pc EXCEPT ![c] = "recover"]
        ELSE /\ IF Len(d.raw) > 0 /\ DOMAIN u.m # {}
                THEN \E k \in DOMAIN u.m :
                       response' = [response EXCEPT
                                      ![c] = [ZeroResponse EXCEPT !.Data = PickData(d, u.m, k)]]
                ELSE response' = [response EXCEPT ![c] = [ZeroResponse EXCEPT !.Data = d]]
             /\ recovered' = recovered
             /\ pc' = [pc EXCEPT ![c] = "rest_errors"]
  /\ UNCHANGED <<req, r, code, b, sink, writes, printed, panicking, printer, reg>>

\* lines 94-119
RESTErrors(c) ==
  /\ pc[c] = "rest_errors"
  /\ IF Len(r[c].Errors) > 0
     THEN LET lp == ErrorLoop(r[c].Errors, Itoa(GoInt(StatusUnprocessableEntity)), <<>>)
          IN /\ code' = [code EXCEPT ![c] = lp.code]
             /\ response' = [response EXCEPT ![c].Code = ResolveCode(lp.code),
                                             ![c].Message = Join(lp.msgs, <<"; ">>)]
     ELSE UNCHANGED <<code, response>>
  /\ pc' = [pc EXCEPT ![c] = "rest_marshal"]
  /\ UNCHANGED <<req, r, b, sink, writes, printed, recovered, panicking,
                 printer, reg>>

\* lines 121-124
RESTMarshal(c) ==
  /\ pc[c] = "rest_marshal"
  /\ LET m == MarshalREST(response[c]) IN
     IF m.err
     THEN /\ pc' = [pc EXCEPT ![c] = "recover"]
          /\ recovered' = [recovered EXCEPT ![c] = "marshal"]
          /\ b' = b
     ELSE /\ pc' = [pc EXCEPT ![c] = "rest_write"]
          /\ b' = [b EXCEPT ![c] = m.b]
          /\ recovered' = recovered
  /\ UNCHANGED <<req, r, response, code, sink, writes, printed, panicking,
                 printer, reg>>

\* lines 125-129
RESTWrite(c) ==
  /\ pc[c] = "rest_write"
  /\ Write(c, b[c], "envelope")
  /\ pc' = [pc EXCEPT ![c] = IF WriteOk(c) THEN "returned" ELSE "recover"]
  /\ recovered' = [recovered EXCEPT ![c] = IF WriteOk(c) THEN @ ELSE "write"]
  /\ UNCHANGED <<req, r, response, code, b, printed, panicking, printer, reg>>

\* lines 59-62 and 158: the deferred function has recovered the panic and
\* dbgPrintf reads _printer for its type assertion
dbgPrintf(c) ==
  /\ pc[c] = "recover"
  /\ pc' = [pc EXCEPT ![c] = IF printer.tab # 0 THEN "printf" ELSE "fallback"]
  /\ UNCHANGED <<req, r, response, code, b, sink, writes, printed,
                 recovered, panicking, printer, reg>>

\* line 159: dbgPrintf reads _printer again and calls its Printf.  A nil
\* interface is a nil dereference, a panic inside the deferred function, which
\* leaves writeJSON; a value torn by a racing RegisterPrinter calls the method
\* of one printer on the data of another, and may do either.
Printf(c) ==
  /\ pc[c] = "printf"
  /\ \/ /\ printer.tab # 0
        /\ printed' = [printed EXCEPT ![c] = @ + 1]
        /\ pc' = [pc EXCEPT ![c] = "fallback"]
        /\ panicking' = panicking
     \/ /\ printer.tab = 0 \/ printer.tab # printer.data
        /\ printed' = printed
        /\ pc' = [pc EXCEPT ![c] = "panicked"]
        /\ panicking' = [panicking EXCEPT ![c] = "printer"]
  /\ UNCHANGED <<req, r, response, code, b, sink, writes, recovered,
                 printer, reg>>

\* lines 64-71
FallbackWrite(c) ==
  /\ pc[c] = "fallback"
  /\ Write(c, MarshalREST(FallbackResponse).b, "fallback")
  /\ pc' = [pc EXCEPT ![c] = IF WriteOk(c) THEN "returned" ELSE "panicked"]
  /\ panicking' = [panicking EXCEPT ![c] = IF WriteOk(c) THEN @ ELSE "fallback write"]
  /\ UNCHANGED <<req, r, response, code, b, printed, recovered, printer, reg>>

\* lines 153-155: the store of an interface value is two word stores, with
\* no synchronisation
RegisterPrinter(p) ==
  /\ reg.pc = "idle" /\ reg.n < MaxRegs
  /\ printer' = [printer EXCEPT !.tab = p]
  /\ reg' = [pc |-> "store", val |-> p, n |-> reg.n + 1]
  /\ UNCHANGED <<req, pc, r, response, code, b, sink, writes, printed,
                 recovered, panicking>>

RegisterPrinterData ==
  /\ reg.pc = "store"
  /\ printer' = [printer EXCEPT !.data = reg.val]
  /\ reg' = [reg EXCEPT !.pc = "idle"]
  /\ UNCHANGED <<req, pc, r, response, code, b, sink, writes, printed,
                 recovered, panicking>>

Next ==
  \/ \E c \in Calls :
       \/ writeJSON(c)
       \/ writeJSONError(c)
       \/ GraphQLMarshal(c)
       \/ GraphQLWrite(c)
       \/ RESTData(c)
       \/ RESTErrors(c)
       \/ RESTMarshal(c)
       \/ RESTWrite(c)
       \/ dbgPrintf(c)
       \/ Printf(c)
       \/ FallbackWrite(c)
  \/ \E p \in {0} \cup Printers : RegisterPrinter(p)
  \/ RegisterPrinterData

\* ----------------------------------------------------- the calls made
SeqUpTo(S, n) == UNION {[1..k -> S] : k \in 0..n}

NotFound == <<"not found">>
Denied == <<"denied">>
UserPath == <<[k |-> "name", v |-> "user"], [k |-> "index", v |-> "0"],
              [k |-> "name", v |-> "id"]>>

\* the strings tried as a code extension
CodeStrings ==
  { <<>>, <<"0">>, <<"0", "0", "7">>, <<"4", "0", "4">>,
    Itoa(MaxInt), Itoa(MaxInt) \o <<"0">>,
    <<"9", "2", "2", "3", "3", "7", "2", "0", "3", "6", "8", "5", "4", "7", "7", "5", "8", "0", "8">>,
    <<"0">> \o Itoa(MaxInt),
    ValidationFailed, ParseFailed, <<"BAD_USER_INPUT">>,
    <<"4", "0", "4", "x">>, <<"-", "1">> }

Extensions ==
  {NoCode} \cup {StringCode(s) : s \in CodeStrings}
  \cup {IntCode(GoInt(n)) : n \in {0, 404}}

Error(m, path, ext) == [Message |-> m, Path |-> path, Extensions |-> ext]

\* one error, every code extension
CodeRequests ==
  {DirectCall([Errors |-> <<Error(NotFound, <<>>, e)>>, Data |-> NilData], TRUE) :
     e \in Extensions}

ListErrors ==
  {Error(m, path, NoCode) : m \in {NotFound, Denied}, path \in {<<>>, UserPath}}
  \cup {Error(NotFound, <<>>, e) :
          e \in {StringCode(<<"4", "0", "4">>), StringCode(<<"0">>), IntCode(GoInt(7))}}

\* error lists, no data
ListRequests ==
  {DirectCall([Errors |-> es, Data |-> NilData], TRUE) : es \in SeqUpTo(ListErrors, MaxErrs)}

Members == {[key |-> k, val |-> v] : k \in {"\"a\"", "\"b\""},
                                     v \in {<<"1">>, <<"[", " ", "2", "]">>}}

Documents ==
  {NilData, EmptyData, InvalidData, NullData, NumberData, StringData, ArrayData}
  \cup {ObjectData(ms) : ms \in SeqUpTo(Members, MaxKeys)}

\* every data payload, with and without an error, in both modes
DataRequests ==
  {DirectCall([Errors |-> es, Data |-> d], rest) :
     es \in {<<>>, <<Error(Denied, UserPath, StringCode(<<"4", "0", "4">>))>>},
     d \in Documents, rest \in BOOLEAN}

ErrorRequests ==
  {ErrorCall(GoInt(n), rest, m) : n \in {0, 404, 500}, rest \in BOOLEAN,
                                  m \in {NotFound, <<>>}}

Requests == CodeRequests \cup ListRequests \cup DataRequests \cup ErrorRequests

\* the calls made side by side
ConcurrentRequests ==
  { DirectCall([Errors |-> <<>>, Data |-> InvalidData], TRUE),
    DirectCall([Errors |-> <<>>, Data |-> ObjectData(<<[key |-> "\"a\"", val |-> <<"1">>]>>)], TRUE),
    DirectCall([Errors |-> <<>>, Data |-> NullData], FALSE),
    ErrorCall(GoInt(404), TRUE, NotFound) }

InitWith(rq) ==
  /\ req = rq
  /\ pc = [c \in Calls |-> "idle"]
  /\ r = [c \in Calls |-> NoResponse]
  /\ response = [c \in Calls |-> ZeroResponse]
  /\ code = [c \in Calls |-> <<>>]
  /\ b = [c \in Calls |-> <<>>]
  /\ sink = [c \in Calls |-> <<>>]
  /\ writes = [c \in Calls |-> <<>>]
  /\ printed = [c \in Calls |-> 0]
  /\ recovered = [c \in Calls |-> "none"]
  /\ panicking = [c \in Calls |-> "none"]
  /\ printer = [tab |-> 0, data |-> 0]
  /\ reg = [pc |-> "idle", val |-> 0, n |-> 0]

\* one call, of any kind, beside a goroutine that registers printers
Init == \E rq \in Requests : InitWith([c \in Calls |-> IF c = 1 THEN rq ELSE NoRequest])

Spec == Init /\ [][Next]_vars

\* every call made at once, each with its own sink
InitConcurrent == \E rq \in [Calls -> ConcurrentRequests] : InitWith(rq)

SpecConcurrent == InitConcurrent /\ [][Next]_vars

\* ============================================================== claims
Terminal(c) == pc[c] \in {"returned", "panicked"}

\* the REST branch has built its envelope (lines 76-119 ran without a panic)
EnvelopeBuilt(c) ==
  /\ req[c].fn # "none" /\ req[c].isRESTful
  /\ pc[c] \notin {"idle", "rest_data", "rest_errors"}
  /\ recovered[c] # "unmarshal"

\* the REST branch is past the data step (lines 76-92 ran without a panic)
DataTaken(c) ==
  /\ req[c].fn # "none" /\ req[c].isRESTful
  /\ pc[c] \notin {"idle", "rest_data"}
  /\ recovered[c] # "unmarshal"

FallbackBytes ==
  <<"{", "\"code\":", "5", "0", "0", ",", "\"message\":", "\"",
    "unexpected error: unmarshal or write response error", "\"", ",",
    "\"data\":", "null", "}">>

\* the envelope text for a code (its decimal digits), a message and data bytes
EnvelopeBytes(digits, msg, data) ==
  <<"{", "\"code\":">> \o digits
  \o (IF msg = <<>> THEN <<>> ELSE <<",", "\"message\":", "\"">> \o msg \o <<"\"">>)
  \o <<",", "\"data\":">> \o data \o <<"}">>

IsDecimal(s) == s # <<>> /\ \A i \in 1..Len(s) : s[i] \in Digits

RECURSIVE WithoutLeadingZeros(_)
WithoutLeadingZeros(s) ==
  IF Len(s) > 1 /\ s[1] = "0" THEN WithoutLeadingZeros(SubSeq(s, 2, Len(s))) ELSE s

MaxIntDigits ==
  <<"9", "2", "2", "3", "3", "7", "2", "0", "3", "6", "8", "5", "4", "7", "7", "5", "8", "0", "7">>

RECURSIVE DigitsLess(_, _)
DigitsLess(x, y) ==
  IF x = <<>> THEN FALSE
  ELSE IF x[1] # y[1] THEN DigitVal(x[1]) < DigitVal(y[1])
  ELSE DigitsLess(Tail(x), Tail(y))

\* the number a decimal string denotes fits the 64 bit int
FitsInt(s) ==
  LET d == WithoutLeadingZeros(s)
  IN Len(d) < Len(MaxIntDigits) \/ (Len(d) = Len(MaxIntDigits) /\ ~DigitsLess(MaxIntDigits, d))

HasCode(e) == e.Extensions.t # "none"
Coded(errs) == {i \in 1..Len(errs) : HasCode(errs[i])}
LastCoded(errs) == errs[CHOOSE i \in Coded(errs) : \A j \in Coded(errs) : j <= i]

\* C1: writeJSONError(c, true, m) writes exactly one REST envelope whose code
\* is c, whose message is m and whose data is null.
C1_EmitErrorEnvelope ==
  \A c \in Calls :
    (req[c].fn = "writeJSONError" /\ req[c].isRESTful /\ pc[c] = "returned"
     /\ recovered[c] = "none")
    => sink[c] = EnvelopeBytes(Itoa(req[c].code), req[c].msg, <<"null">>)

\* C2: in REST mode with a non-empty error list the envelope's code is the
\* numeric code of the last error that carries a code extension, whatever the
\* type of its value, and 422 when no error carries one.
C2_LastCodeWins ==
  \A c \in Calls :
    (EnvelopeBuilt(c) /\ Len(r[c].Errors) > 0)
    => LET errs == r[c].Errors
           ext == LastCoded(errs).Extensions
       IN IF Coded(errs) = {} THEN response[c].Code = GoInt(422)
          ELSE IF ext.t = "int" THEN response[c].Code = ext.n
          ELSE response[c].Code = ResolveCode(ext.s)

\* C3 (as stated): a working code string of decimal digits resolves to exactly
\* the integer it denotes, however large; the validation-failed and
\* parse-failed kinds resolve to 422; every other string to 500.
C3_ExactNumericCode ==
  \A c \in Calls :
    (EnvelopeBuilt(c) /\ Len(r[c].Errors) > 0)
    => IF IsDecimal(code[c])
       THEN Itoa(response[c].Code) = WithoutLeadingZeros(code[c])
       ELSE IF code[c] \in {<<"GRAPHQL_VALIDATION_FAILED">>, <<"GRAPHQL_PARSE_FAILED">>}
       THEN response[c].Code = GoInt(422)
       ELSE response[c].Code = GoInt(500)

\* C3 (amended): a working code string of decimal digits resolves to the
\* integer it denotes when that fits the machine int, and to the largest
\* machine int when it does not; the validation-failed and parse-failed kinds
\* resolve to 422; every other string, the empty one included, to 500.
C3_SaturatingNumericCode ==
  \A c \in Calls :
    (EnvelopeBuilt(c) /\ Len(r[c].Errors) > 0)
    => IF IsDecimal(code[c])
       THEN IF FitsInt(code[c])
            THEN Itoa(response[c].Code) = WithoutLeadingZeros(code[c])
            ELSE Itoa(response[c].Code) = MaxIntDigits
       ELSE IF code[c] \in {<<"GRAPHQL_VALIDATION_FAILED">>, <<"GRAPHQL_PARSE_FAILED">>}
       THEN response[c].Code = GoInt(422)
       ELSE response[c].Code = GoInt(500)

\* a decimal code too large for the int has been resolved
C3_Witness ==
  \E c \in Calls :
    /\ EnvelopeBuilt(c) /\ Len(r[c].Errors) > 0
    /\ IsDecimal(code[c]) /\ ~FitsInt(code[c])
    /\ pc[c] = "returned" /\ recovered[c] = "none"

\* C4: after a REST call the bytes its sink has received are exactly one
\* well-formed envelope, the one normally built or the fixed fallback one,
\* whatever failed on the way (a first write that accepted some bytes included).
C4_OneWellFormedEnvelope ==
  \A c \in Calls :
    (req[c].fn # "none" /\ req[c].isRESTful /\ pc[c] = "returned")
    => \/ sink[c] = FallbackBytes
       \/ /\ EnvelopeBuilt(c)
          /\ sink[c] = MarshalREST(response[c]).b

DistinctKeys(d) == {d.members[i].key : i \in 1..Len(d.members)}

\* data that is present and is not a single-key mapping
Malformed(d) ==
  /\ Len(d.raw) > 0
  /\ d.kind # "object" \/ Cardinality(DistinctKeys(d)) # 1

\* data that is present and is neither JSON null nor a JSON object
NotAMapping(d) == Len(d.raw) > 0 /\ d.kind \in {"invalid", "number", "string", "array"}

\* C5 (as stated): for data that is present and malformed (not JSON, not an
\* object, or an object without exactly one key) REST mode writes the fixed
\* 500 envelope and returns, and GraphQL mode propagates the fault.
C5_MalformedDataIs500 ==
  \A c \in Calls :
    (req[c].fn # "none" /\ Terminal(c) /\ Malformed(r[c].Data))
    => IF req[c].isRESTful
       THEN pc[c] = "returned" /\ sink[c] = FallbackBytes
       ELSE pc[c] = "panicked" /\ recovered[c] = "none"

\* C5 (amended): for data that is present and is not valid JSON, or is valid
\* JSON that is neither an object nor null, REST mode recovers the fault, never
\* writes a normal envelope, writes nothing but the fixed 500 envelope, and
\* returns without a fault exactly when that one fallback write succeeded (a
\* fault of the diagnostic call or of the fallback write leaves the call).
\* Null, an object with no key and an object with several keys are no fault:
\* null and {} leave the data as given, an object yields the value of one of
\* its keys.  GraphQL mode never recovers: it panics when the data is not
\* valid JSON or the write fails and passes any valid JSON through.
C5_FaultOnlyForNonMappings ==
  \A c \in Calls :
    LET d == r[c].Data
        vals == {d.members[i].val : i \in 1..Len(d.members)}
    IN /\ (req[c].fn # "none" /\ req[c].isRESTful /\ NotAMapping(d)
           /\ pc[c] \notin {"idle", "rest_data"})
          => /\ recovered[c] = "unmarshal"
             /\ \A i \in 1..Len(writes[c]) : writes[c][i].what = "fallback"
             /\ Len(writes[c]) <= 1
             /\ (pc[c] = "returned") = (writes[c] = <<[what |-> "fallback", ok |-> TRUE]>>)
             /\ pc[c] = "returned" => sink[c] = FallbackBytes
             /\ pc[c] = "panicked" => panicking[c] \in {"printer", "fallback write"}
       /\ (req[c].fn # "none" /\ req[c].isRESTful /\ Len(d.raw) > 0 /\ ~NotAMapping(d)
           /\ pc[c] \notin {"idle", "rest_data"})
          => /\ recovered[c] # "unmarshal"
             /\ IF vals = {} THEN response[c].Data = d
                ELSE response[c].Data.raw \in vals
       /\ (req[c].fn # "none" /\ ~req[c].isRESTful)
          => /\ recovered[c] = "none" /\ printed[c] = 0
             /\ \A i \in 1..Len(writes[c]) : writes[c][i].what = "graphql"
             /\ (Terminal(c) /\ d.kind = "invalid")
                => pc[c] = "panicked" /\ panicking[c] = "marshal" /\ writes[c] = <<>>
             /\ (Terminal(c) /\ Len(d.raw) > 0 /\ d.kind # "invalid")
                => pc[c] = "returned" \/ panicking[c] = "write"

\* a REST call given a JSON number as data has returned after writing the
\* fallback envelope
C5_Witness ==
  \E c \in Calls :
    /\ req[c].isRESTful /\ r[c].Data.kind = "number"
    /\ pc[c] = "returned" /\ sink[c] = FallbackBytes

\* C6: in REST mode, data that is a mapping with exactly one key k and value
\* v gives an envelope whose data is v, for every k and with or without
\* errors; empty data is passed on as it is.
C6_DataIsMemberValue ==
  \A c \in Calls :
    LET d == r[c].Data IN
    DataTaken(c)
    => /\ (d.kind = "object" /\ Len(d.members) = 1)
          => /\ response[c].Data.raw = d.members[1].val
             /\ (pc[c] = "returned" /\ recovered[c] = "none")
                => sink[c] = EnvelopeBytes(Itoa(response[c].Code), response[c].Message,
                                           Compact(d.members[1].val))
       /\ Len(d.raw) = 0 => response[c].Data = d

\* a REST call with one-key data and an error has written its envelope
C6_Witness ==
  \E c \in Calls :
    /\ DataTaken(c) /\ r[c].Data.kind = "object" /\ Len(r[c].Data.members) = 1
    /\ Len(r[c].Errors) > 0
    /\ pc[c] = "returned" /\ recovered[c] = "none"
    /\ response[c].Data.raw = r[c].Data.members[1].val

\* the text of one error: its message, then a space and the path rendering
\* when it has a path
Piece(e) == IF e.Path = <<>> THEN e.Message ELSE e.Message \o <<" ">> \o PathString(e.Path)

RECURSIVE JoinedPieces(_, _)
JoinedPieces(errs, n) ==
  IF n = 1 THEN Piece(errs[1])
  ELSE JoinedPieces(errs, n - 1) \o <<"; ">> \o Piece(errs[n])

\* C7: in REST mode with errors e1..en the envelope's message is the per-error
\* strings joined with "; " in list order, one per error, whether or not an
\* error carries a code.
C7_JoinedMessage ==
  \A c \in Calls :
    (EnvelopeBuilt(c) /\ Len(r[c].Errors) > 0)
    => response[c].Message = JoinedPieces(r[c].Errors, Len(r[c].Errors))

\* two errors, one with a path and one with a code, have been joined
C7_Witness ==
  \E c \in Calls :
    /\ EnvelopeBuilt(c) /\ Len(r[c].Errors) = 2
    /\ r[c].Errors[1].Path # <<>> /\ r[c].Errors[2].Path = <<>>
    /\ HasCode(r[c].Errors[2]) /\ ~HasCode(r[c].Errors[1])
    /\ response[c].Message =
         r[c].Errors[1].Message \o <<" ", "user", "[", "0", "]", ".", "id", "; ">>
         \o r[c].Errors[2].Message

\* what a call writes when nothing runs beside it and every write succeeds
AloneSinks(rq) ==
  LET rr == IF rq.fn = "writeJSONError" THEN ErrorResponse(rq.code, rq.msg) ELSE rq.r
      d == rr.Data
      u == jsonUnmarshal(d)
      datas == IF Len(d.raw) > 0 /\ DOMAIN u.m # {}
               THEN {RawValue(u.m[k]) : k \in DOMAIN u.m} ELSE {d}
      lp == ErrorLoop(rr.Errors, <<"4", "2", "2">>, <<>>)
      env(x) == IF Len(rr.Errors) > 0
                THEN [Code |-> ResolveCode(lp.code), Message |-> Join(lp.msgs, <<"; ">>),
                      Data |-> x]
                ELSE [Code |-> Zero, Message |-> <<>>, Data |-> x]
  IN IF ~rq.isRESTful
     THEN {IF MarshalGraphQL(rr).err THEN <<>> ELSE MarshalGraphQL(rr).b}
     ELSE IF Len(d.raw) > 0 /\ u.err THEN {FallbackBytes}
     ELSE {IF MarshalREST(env(x)).err THEN FallbackBytes ELSE MarshalREST(env(x)).b :
             x \in datas}

\* C8: calls run side by side, each with its own sink, leave every sink with
\* the bytes the call writes when run alone, and a concurrent RegisterPrinter
\* changes nothing a call writes.
C8_SameAsSequential ==
  \A c \in Calls :
    (req[c].fn # "none" /\ Terminal(c) /\ \A i \in 1..Len(writes[c]) : writes[c][i].ok)
    => sink[c] \in AloneSinks(req[c])

\* the last error with a code extension carries a string of zeros
LastCodeIsZeroString(errs) ==
  /\ Coded(errs) # {}
  /\ LET ext == LastCoded(errs).Extensions
     IN ext.t = "string" /\ ext.s # <<>> /\ \A i \in 1..Len(ext.s) : ext.s[i] = "0"

\* the int is the value of a decimal string some error carries as its code
SuppliedCode(n, errs) ==
  \E i \in Coded(errs) :
    LET ext == errs[i].Extensions
    IN \/ ext.t = "int" /\ n = ext.n
       \/ ext.t = "string" /\ IsDecimal(ext.s) /\ Itoa(n) = WithoutLeadingZeros(ext.s)

\* C9 (as stated): on the non-fallback path the envelope's code is 0 if and
\* only if the errors list is empty (then with no message), and a non-zero
\* code is a numeric code an error's extensions supply, 422 or 500.
C9_ZeroIffNoErrors ==
  \A c \in Calls :
    EnvelopeBuilt(c)
    => /\ (response[c].Code = Zero) = (r[c].Errors = <<>>)
       /\ r[c].Errors = <<>> => response[c].Message = <<>>
       /\ response[c].Code # Zero
          => \/ response[c].Code \in {GoInt(422), GoInt(500)}
             \/ SuppliedCode(response[c].Code, r[c].Errors)

\* C9 (amended): on the non-fallback path an empty errors list always gives
\* code 0 and no message; a non-empty errors list gives code 0 exactly when
\* the last error carrying a code extension carries a string of decimal
\* digits that denotes zero; a non-zero code is the value of a decimal string
\* an error's extensions supply, the largest machine int when that value does
\* not fit, 422 or 500.
C9_ZeroOnlyFromZeroCode ==
  \A c \in Calls :
    EnvelopeBuilt(c)
    => /\ r[c].Errors = <<>> => response[c].Code = Zero /\ response[c].Message = <<>>
       /\ r[c].Errors # <<>>
          => (response[c].Code = Zero) = LastCodeIsZeroString(r[c].Errors)
       /\ response[c].Code # Zero
          => \/ response[c].Code \in {GoInt(422), GoInt(500)}
             \/ SuppliedCode(response[c].Code, r[c].Errors)
             \/ /\ Itoa(response[c].Code) = MaxIntDigits
                /\ \E i \in Coded(r[c].Errors) :
                     LET ext == r[c].Errors[i].Extensions
                     IN ext.t = "string" /\ IsDecimal(ext.s) /\ ~FitsInt(ext.s)

\* a call with an error whose code is the string "0" has written code 0
C9_Witness ==
  \E c \in Calls :
    /\ EnvelopeBuilt(c) /\ r[c].Errors # <<>> /\ response[c].Code = Zero
    /\ LastCodeIsZeroString(r[c].Errors)
    /\ pc[c] = "returned" /\ recovered[c] = "none"

\* C10: per call the writes are bounded and ordered.  GraphQL mode writes at
\* most once.  REST mode writes once when nothing fails, once (the fallback
\* envelope only) when the fault comes before the write, twice (the envelope,
\* then the fallback) when the first write fails; a failed fallback write
\* leaves the call with no further write; the printer is called only on the
\* fallback path and never when none is registered.
C10_WriteAttempts ==
  \A c \in Calls :
    LET w == writes[c] IN
    (req[c].fn # "none" /\ Terminal(c))
    => /\ ~req[c].isRESTful
          => /\ Len(w) <= 1 /\ recovered[c] = "none" /\ printed[c] = 0
             /\ \A i \in 1..Len(w) : w[i].what = "graphql"
       /\ req[c].isRESTful
          => /\ recovered[c] = "none"
                => w = <<[what |-> "envelope", ok |-> TRUE]>> /\ printed[c] = 0
             /\ recovered[c] \in {"unmarshal", "marshal"}
                => Len(w) = 1 /\ w[1].what = "fallback"
             /\ recovered[c] = "write"
                => /\ Len(w) = 2 /\ w[1] = [what |-> "envelope", ok |-> FALSE]
                   /\ w[2].what = "fallback"
             /\ pc[c] = "panicked"
                => w[Len(w)] = [what |-> "fallback", ok |-> FALSE]
             /\ pc[c] = "returned" => w[Len(w)].ok
       /\ reg.n = 0 => printed[c] = 0
       /\ printed[c] <= 1

====
